---- MODULE Spec2Model ----
(***************************************************************************)
(* NetworkLLM (src/main.py): the credential store (save_credentials,       *)
(* load_credentials), the device profile (NetworkQueryProcessor) and the   *)
(* single-shot pipeline of main().                                         *)
(*                                                                         *)
(* Python values: None is the string NoneVal; a str is a TLA+ string.      *)
(* The credential file is modelled by what is in it: absent, text that     *)
(* json.load rejects, a JSON value that is no object, or a JSON object     *)
(* written as the sequence of its "key": value members (a JSON text may    *)
(* repeat a key; a Python dict may not).                                   *)
(***************************************************************************)
EXTENDS Integers, Sequences, FiniteSets, TLC

----------------------------------------------------------------------------
(* Bounds and input sets *)

\* longest JSON object (number of members) the credential file starts with
MaxPairs == 2

Hosts == {"r1", "r2"}
Usernames == {"admin", "ops"}
Passwords == {"pw1", "pw2"}
Queries == {"show me the interfaces that are down"}
Commands == {"show interfaces", "show version"}
Outputs == {"", "Uptime: 10 days"}
Summaries == {"The device has been up for 10 days."}
\* tags a caller may pass; the last one is not in SUPPORTED_DEVICE_TYPES
DeviceTypeInputs == {"cisco_ios", "juniper_junos", "hp_procurve"}

----------------------------------------------------------------------------
(* Python values *)

NoneVal == "<None>"

\* bool(x) for x a str or None
Truthy(x) == x # NoneVal /\ x # ""

\* the expression `a or b`
PyOr(a, b) == IF Truthy(a) THEN a ELSE b

SUPPORTED_DEVICE_TYPES ==
    [t \in {"cisco_ios", "cisco_nxos", "arista_eos", "juniper_junos",
            "fortinet", "paloalto_panos"} |->
        CASE t = "cisco_ios" -> "Cisco IOS"
          [] t = "cisco_nxos" -> "Cisco NXOS"
          [] t = "arista_eos" -> "Arista EOS"
          [] t = "juniper_junos" -> "Juniper JUNOS"
          [] t = "fortinet" -> "Fortinet"
          [] t = "paloalto_panos" -> "Palo Alto PAN-OS"]

DefaultPort == 22

----------------------------------------------------------------------------
(* The credential file and JSON *)

\* a member value of the table: a {'username':..,'password':..} object, or
\* anything else (wf = FALSE: a number, a string, an object lacking a key)
Rec(u, p) == [wf |-> TRUE, username |-> u, password |-> p]
BadRec == [wf |-> FALSE, username |-> NoneVal, password |-> NoneVal]

\* file contents: kind is "missing" (os.path.exists is false), "unparseable"
\* (json.load raises), "array"/"string"/"number"/"null" (JSON, not an object)
\* or "object" with its members in textual order
NonObjectKinds == {"array", "string", "number", "null"}
FileOf(kind, pairs) == [kind |-> kind, pairs |-> pairs]

\* dict operations on an insertion-ordered dict, held as a sequence of
\* <<key, value>> with distinct keys
DictKeys(d) == {d[i][1] : i \in 1..Len(d)}
DictIndex(d, k) == CHOOSE i \in 1..Len(d) : d[i][1] = k
DictGet(d, k) == d[DictIndex(d, k)][2]
DictSet(d, k, v) ==
    IF k \in DictKeys(d)
    THEN [d EXCEPT ![DictIndex(d, k)] = <<k, v>>]
    ELSE Append(d, <<k, v>>)

\* json.load of an object: members are inserted in order, a repeated key
\* overwrites the earlier value
RECURSIVE json_load_object(_)
json_load_object(pairs) ==
    IF pairs = <<>> THEN <<>>
    ELSE LET n == Len(pairs)
         IN DictSet(json_load_object(SubSeq(pairs, 1, n - 1)),
                    pairs[n][1], pairs[n][2])

\* json.dump of a dict: one member per key, in insertion order
json_dump(d) == FileOf("object", d)

\* a save that keeps an existing record (creds.setdefault in place of
\* the assignment of line 41)
save_credentials_keep(f, username, password, host) ==
    LET parsed == IF f.kind = "object"
                  THEN json_load_object(f.pairs) ELSE <<>>
    IN [file |-> json_dump(IF host \in DictKeys(parsed) THEN parsed
                           ELSE Append(parsed, <<host,
                                                 Rec(username, password)>>)),
        raised |-> NoneVal]

\* a save that adds its member to the object as written, without
\* replacing what the file already says for the host
save_credentials_append(f, username, password, host) ==
    [file |-> FileOf("object",
                     Append(IF f.kind = "object" THEN f.pairs ELSE <<>>,
                            <<host, Rec(username, password)>>)),
     raised |-> NoneVal]

\* a save that starts from an empty table instead of the file's (lines
\* 35-40 missing)
save_credentials_fresh(f, username, password, host) ==
    [file |-> json_dump(<<<<host, Rec(username, password)>>>>),
     raised |-> NoneVal]

\* save_credentials(username, password, host): the file afterwards and
\* the exception that escaped (NoneVal when it returned)
save_credentials(f, username, password, host) ==
    LET parsed == IF f.kind \in {"missing", "unparseable"}
                  THEN FileOf("object", <<>>)
                  ELSE IF f.kind = "object"
                       THEN FileOf("object", json_load_object(f.pairs))
                       ELSE f
    IN IF parsed.kind = "object"
       THEN [file |-> json_dump(DictSet(parsed.pairs, host,
                                        Rec(username, password))),
             raised |-> NoneVal]
       ELSE [file |-> f, raised |-> "TypeError"]

\* load_credentials(host): the pair (username, password) it returns; every
\* exception inside the try is swallowed
load_credentials(f, host) ==
    IF f.kind = "object"
    THEN LET creds == json_load_object(f.pairs)
         IN IF host \in DictKeys(creds) /\ DictGet(creds, host).wf
            THEN <<DictGet(creds, host).username,
                   DictGet(creds, host).password>>
            ELSE <<NoneVal, NoneVal>>
    ELSE <<NoneVal, NoneVal>>

----------------------------------------------------------------------------
(* The device profile and the session gateway *)

NoDevice == [device_type |-> NoneVal, host |-> NoneVal, username |-> NoneVal,
             password |-> NoneVal, port |-> 0]

\* a constructor without the check of lines 77-78
NetworkQueryProcessor_unchecked(device_type, host, username, password, port) ==
    [raised |-> NoneVal,
     device_info |-> [device_type |-> device_type, host |-> host,
                      username |-> username, password |-> password,
                      port |-> port]]

\* NetworkQueryProcessor.__init__: the object's device_info, or the
\* ValueError it raises (no object is then bound by the caller)
NetworkQueryProcessor(device_type, host, username, password, port) ==
    IF device_type \in DOMAIN SUPPORTED_DEVICE_TYPES
    THEN [raised |-> NoneVal,
          device_info |-> [device_type |-> device_type, host |-> host,
                           username |-> username, password |-> password,
                           port |-> port]]
    ELSE [raised |-> "ValueError", device_info |-> NoDevice]

\* what ConnectHandler(**device_info) can do: return a connection or raise
TransportOutcomes == {"ok", "NetMikoTimeoutException",
                      "NetMikoAuthenticationException", "SSHException",
                      "OSError"}
TransportMessage == "Error reading SSH protocol banner"

\* a connect_to_device without the catch-all clause of lines 96-97
connect_to_device_nocatchall(device_info, outcome) ==
    CASE outcome = "ok" ->
           [raised |-> NoneVal, msg |-> ""]
      [] outcome = "NetMikoTimeoutException" ->
           [raised |-> "ConnectionError",
            msg |-> "Connection to " \o device_info.host \o " timed out"]
      [] outcome = "NetMikoAuthenticationException" ->
           [raised |-> "ConnectionError",
            msg |-> "Authentication failed for " \o device_info.host]
      [] OTHER ->
           [raised |-> outcome, msg |-> TransportMessage]

\* connect_to_device: the exception type and message that leave it
\* (raised = NoneVal: it returned the connection)
connect_to_device(device_info, outcome) ==
    CASE outcome = "ok" ->
           [raised |-> NoneVal, msg |-> ""]
      [] outcome = "NetMikoTimeoutException" ->
           [raised |-> "ConnectionError",
            msg |-> "Connection to " \o device_info.host \o " timed out"]
      [] outcome = "NetMikoAuthenticationException" ->
           [raised |-> "ConnectionError",
            msg |-> "Authentication failed for " \o device_info.host]
      [] OTHER ->
           [raised |-> "ConnectionError",
            msg |-> "Failed to connect to " \o device_info.host \o ": "
                    \o TransportMessage]

----------------------------------------------------------------------------
(* State *)

VARIABLES
    file,        \* contents of CREDENTIALS_FILE
    lastCall,    \* the last direct call of a module function and its result
    prevFile,    \* the file before that call
    pc,          \* position of main(): "idle" before it starts
    args,        \* argparse namespace
    stored,      \* <<stored_username, stored_password>>
    username,    \* main's local
    password,    \* main's local
    prompted,    \* fields asked for interactively, in order
    processor,   \* device_info of the NetworkQueryProcessor, NoDevice if none
    command,     \* main's local, NoneVal while unset
    output,      \* main's local, NoneVal while unset
    connection,  \* "none", "open" or "closed"
    calls,       \* calls made to the language model and to the device
    stdout,      \* lines printed
    exc,         \* the exception caught by main's handler or escaping main
    writes       \* times main has rewritten CREDENTIALS_FILE (lines 42-43)

vars == <<file, lastCall, prevFile, pc, args, stored, username, password,
          prompted, processor, command, output, connection, calls, stdout,
          exc, writes>>

mainVars == <<pc, args, stored, username, password, prompted, processor,
              command, output, connection, calls, stdout, exc, writes>>

NoArgs == [device_type |-> NoneVal, host |-> NoneVal, username |-> NoneVal,
           password |-> NoneVal, port |-> 0]
NoExc == [type |-> NoneVal, msg |-> ""]
NoCall == [op |-> "none", host |-> NoneVal, username |-> NoneVal,
           password |-> NoneVal, device_type |-> NoneVal,
           raised |-> NoneVal, ret |-> <<NoneVal, NoneVal>>,
           repeat |-> FALSE]
Call(op, a, b, c, res) == [op |-> op, a |-> a, b |-> b, c |-> c, res |-> res]

\* member values and JSON objects the file may hold at the start
InitRecs == {Rec("admin", "pw1"), Rec("ops", "pw2"), BadRec}
InitPairs == Hosts \X InitRecs
InitObjects == UNION {[1..n -> InitPairs] : n \in 0..MaxPairs}
InitFiles == {FileOf(k, <<>>) : k \in {"missing", "unparseable"}
                                       \cup NonObjectKinds}
             \cup {FileOf("object", o) : o \in InitObjects}

Init ==
    /\ file \in InitFiles
    /\ lastCall = NoCall
    /\ prevFile = file
    /\ pc = "idle"
    /\ args = NoArgs
    /\ stored = <<NoneVal, NoneVal>>
    /\ username = NoneVal
    /\ password = NoneVal
    /\ prompted = <<>>
    /\ processor = NoDevice
    /\ command = NoneVal
    /\ output = NoneVal
    /\ connection = "none"
    /\ calls = <<>>
    /\ stdout = <<>>
    /\ exc = NoExc
    /\ writes = 0

----------------------------------------------------------------------------
(* Direct calls of the module's functions (an importing caller, a test) *)

\* lastCall.repeat: the call before it was the same save_credentials call
\* (same host, username and password) and returned
CallSaveCredentials ==
    /\ pc = "idle"
    /\ \E u \in Usernames \cup {""}, p \in Passwords \cup {""}, h \in Hosts :
         LET r == save_credentials(file, u, p, h)
         IN /\ file' = r.file
            /\ prevFile' = file
            /\ lastCall' = [NoCall EXCEPT !.op = "save_credentials",
                                          !.host = h, !.username = u,
                                          !.password = p,
                                          !.raised = r.raised,
                                          !.repeat =
                                             /\ lastCall.op = "save_credentials"
                                             /\ lastCall.raised = NoneVal
                                             /\ lastCall.host = h
                                             /\ lastCall.username = u
                                             /\ lastCall.password = p]
    /\ UNCHANGED mainVars

CallLoadCredentials ==
    /\ pc = "idle"
    /\ \E h \in Hosts :
         lastCall' = [NoCall EXCEPT !.op = "load_credentials", !.host = h,
                                    !.ret = load_credentials(file, h)]
    /\ prevFile' = file
    /\ UNCHANGED <<file, mainVars>>

CallNetworkQueryProcessor ==
    /\ pc = "idle"
    /\ \E t \in DeviceTypeInputs, h \in Hosts :
         LET r == NetworkQueryProcessor(t, h, "admin", "pw1", DefaultPort)
         IN /\ lastCall' = [NoCall EXCEPT !.op = "NetworkQueryProcessor",
                                          !.host = r.device_info.host,
                                          !.device_type = t,
                                          !.raised = r.raised]
    /\ prevFile' = file
    /\ UNCHANGED <<file, mainVars>>

----------------------------------------------------------------------------
(* main() *)

\* the except clause of main: print the message, fall off the end of main
Handler(type, msg) ==
    /\ exc' = [type |-> type, msg |-> msg]
    /\ stdout' = Append(stdout, "Error: " \o msg)
    /\ pc' = "Failed"

\* an exception outside the try block: traceback, the interpreter exits
Escapes(type, msg) ==
    /\ exc' = [type |-> type, msg |-> msg]
    /\ pc' = "Crashed"

\* parse_args: --device_type has choices, --username is required; argparse
\* prints its usage error and exits with status 2 (u = NoneVal: the option
\* is not on the command line)
MainParseArgs ==
    /\ pc = "idle"
    /\ \E t \in DeviceTypeInputs, h \in Hosts,
          u \in Usernames \cup {"", NoneVal}, p \in Passwords \cup {NoneVal} :
         IF t \in DOMAIN SUPPORTED_DEVICE_TYPES /\ u # NoneVal
         THEN /\ args' = [device_type |-> t, host |-> h, username |-> u,
                          password |-> p, port |-> DefaultPort]
              /\ pc' = "load"
              /\ exc' = exc
         ELSE /\ args' = args
              /\ pc' = "ArgError"
              /\ exc' = [type |-> "SystemExit",
                          msg |-> IF t \notin DOMAIN SUPPORTED_DEVICE_TYPES
                                  THEN "argument --device_type: invalid choice"
                                  ELSE "the following arguments are required: --username"]
    /\ lastCall' = NoCall
    /\ prevFile' = file
    /\ UNCHANGED <<file, stored, username, password, prompted, processor,
                   command, output, connection, calls, stdout, writes>>

\* a resolution that takes the cached password only when the cached
\* username is the one in use
MainLoadCredentials_sameuser ==
    /\ pc = "load"
    /\ LET s == load_credentials(file, args.host)
           u == PyOr(args.username, s[1])
       IN /\ stored' = s
          /\ username' = u
          /\ password' = PyOr(args.password,
                              IF u = s[1] THEN s[2] ELSE NoneVal)
    /\ pc' = "prompt_username"
    /\ UNCHANGED <<writes, file, lastCall, prevFile, args, prompted,
                   processor, command, output, connection, calls, stdout,
                   exc>>

\* lines 150-152
MainLoadCredentials ==
    /\ pc = "load"
    /\ LET s == load_credentials(file, args.host)
       IN /\ stored' = s
          /\ username' = PyOr(args.username, s[1])
          /\ password' = PyOr(args.password, s[2])
    /\ pc' = "prompt_username"
    /\ UNCHANGED <<writes, file, lastCall, prevFile, args, prompted, processor,
                   command, output, connection, calls, stdout, exc>>

\* lines 153-154
MainPromptUsername ==
    /\ pc = "prompt_username"
    /\ IF ~Truthy(username)
       THEN /\ \E typed \in Usernames \cup {""} : username' = typed
            /\ prompted' = Append(prompted, "username")
       ELSE UNCHANGED <<username, prompted>>
    /\ pc' = "prompt_password"
    /\ UNCHANGED <<writes, file, lastCall, prevFile, args, stored, password,
                   processor, command, output, connection, calls, stdout,
                   exc>>

\* lines 155-156
MainPromptPassword ==
    /\ pc = "prompt_password"
    /\ IF ~Truthy(password)
       THEN /\ \E typed \in Passwords \cup {""} : password' = typed
            /\ prompted' = Append(prompted, "password")
       ELSE UNCHANGED <<password, prompted>>
    /\ pc' = "save"
    /\ UNCHANGED <<writes, file, lastCall, prevFile, args, stored, username,
                   processor, command, output, connection, calls, stdout,
                   exc>>

\* a save of the command-line values instead of the resolved ones
MainSaveCredentials_args ==
    /\ pc = "save"
    /\ LET r == save_credentials(file, args.username, args.password,
                                 args.host)
       IN /\ file' = r.file
          /\ IF r.raised = NoneVal
             THEN pc' = "construct" /\ exc' = exc
             ELSE Escapes(r.raised, "object does not support item assignment")
          /\ writes' = IF r.raised = NoneVal THEN writes + 1 ELSE writes
    /\ UNCHANGED <<lastCall, prevFile, args, stored, username, password,
                   prompted, processor, command, output, connection, calls,
                   stdout>>

\* line 157, outside the try block
MainSaveCredentials ==
    /\ pc = "save"
    /\ LET r == save_credentials(file, username, password, args.host)
       IN /\ file' = r.file
          /\ IF r.raised = NoneVal
             THEN pc' = "construct" /\ exc' = exc
             ELSE Escapes(r.raised, "object does not support item assignment")
          /\ writes' = IF r.raised = NoneVal THEN writes + 1 ELSE writes
    /\ UNCHANGED <<lastCall, prevFile, args, stored, username, password,
                   prompted, processor, command, output, connection, calls,
                   stdout>>

\* lines 159-167: read the request, build the processor (outside the try)
MainConstruct ==
    /\ pc = "construct"
    /\ LET r == NetworkQueryProcessor(args.device_type, args.host, username,
                                      password, args.port)
       IN /\ processor' = r.device_info
          /\ IF r.raised = NoneVal
             THEN pc' = "synthesize" /\ exc' = exc
             ELSE Escapes(r.raised, "Unsupported device type.")
    /\ UNCHANGED <<writes, file, lastCall, prevFile, args, stored, username,
                   password, prompted, command, output, connection, calls,
                   stdout>>

\* a synthesis stage whose failure is reported and then ignored
MainSynthesize_swallow ==
    /\ pc = "synthesize"
    /\ \E q \in Queries :
         \/ \E c \in Commands :
              /\ calls' = Append(calls, Call("get_command_from_llm", q,
                                   SUPPORTED_DEVICE_TYPES[args.device_type],
                                   "", c))
              /\ command' = c
              /\ stdout' = Append(stdout, "Generated command: " \o c)
              /\ pc' = "connect"
              /\ exc' = exc
         \/ /\ calls' = Append(calls, Call("get_command_from_llm", q,
                                   SUPPORTED_DEVICE_TYPES[args.device_type],
                                   "", "raise"))
            /\ command' = ""
            /\ exc' = [type |-> "APIError", msg |-> "Connection error."]
            /\ stdout' = Append(stdout, "Error: Connection error.")
            /\ pc' = "connect"
    /\ UNCHANGED <<writes, file, lastCall, prevFile, args, stored, username,
                   password, prompted, processor, output, connection>>

\* lines 169-170: get_command_from_llm returns a command or raises (q is
\* the request typed on line 159, which nothing reads before this call)
MainSynthesize ==
    /\ pc = "synthesize"
    /\ \E q \in Queries :
         \/ \E c \in Commands :
              /\ calls' = Append(calls, Call("get_command_from_llm", q,
                                   SUPPORTED_DEVICE_TYPES[args.device_type],
                                   "", c))
              /\ command' = c
              /\ stdout' = Append(stdout, "Generated command: " \o c)
              /\ pc' = "connect"
              /\ exc' = exc
         \/ /\ calls' = Append(calls, Call("get_command_from_llm", q,
                                   SUPPORTED_DEVICE_TYPES[args.device_type],
                                   "", "raise"))
            /\ command' = command
            /\ Handler("APIError", "Connection error.")
    /\ UNCHANGED <<writes, file, lastCall, prevFile, args, stored, username,
                   password, prompted, processor, output, connection>>

\* a connect stage that reports the failure and goes on to Execute
MainConnect_continue ==
    /\ pc = "connect"
    /\ \E o \in TransportOutcomes :
         LET r == connect_to_device(processor, o)
         IN /\ calls' = Append(calls, Call("connect_to_device", processor.host,
                                             processor.username,
                                             processor.password, o))
            /\ connection' = IF r.raised = NoneVal THEN "open" ELSE connection
            /\ exc' = IF r.raised = NoneVal THEN exc
                      ELSE [type |-> r.raised, msg |-> r.msg]
            /\ stdout' = stdout \o
                 <<"Connecting to " \o processor.host \o "...",
                   IF r.raised = NoneVal
                   THEN "Successfully connected to " \o processor.host
                   ELSE "Error: " \o r.msg>>
            /\ pc' = "send"
    /\ UNCHANGED <<writes, file, lastCall, prevFile, args, stored, username,
                   password, prompted, processor, command, output>>

\* line 171
MainConnect ==
    /\ pc = "connect"
    /\ \E o \in TransportOutcomes :
         LET r == connect_to_device(processor, o)
         IN /\ calls' = Append(calls, Call("connect_to_device", processor.host,
                                             processor.username,
                                             processor.password, o))
            /\ IF r.raised = NoneVal
               THEN /\ connection' = "open"
                    /\ stdout' = stdout \o
                         <<"Connecting to " \o processor.host \o "...",
                           "Successfully connected to " \o processor.host>>
                    /\ pc' = "send"
                    /\ exc' = exc
               ELSE /\ connection' = connection
                    /\ exc' = [type |-> r.raised, msg |-> r.msg]
                    /\ stdout' = stdout \o
                         <<"Connecting to " \o processor.host \o "...",
                           "Error: " \o r.msg>>
                    /\ pc' = "Failed"
    /\ UNCHANGED <<writes, file, lastCall, prevFile, args, stored, username,
                   password, prompted, processor, command, output>>

\* an Execute stage that does not print the reply (lines 174-175 missing)
MainSendCommand_noprint ==
    /\ pc = "send"
    /\ \/ \E reply \in Outputs :
            /\ calls' = Append(calls, Call("send_command", command, "", "",
                                           reply))
            /\ output' = reply
            /\ stdout' = stdout \o <<"Running command: " \o command>>
            /\ pc' = "disconnect"
            /\ exc' = exc
       \/ /\ calls' = Append(calls, Call("send_command", command, "", "",
                                         "raise"))
          /\ output' = output
          /\ exc' = [type |-> "ReadTimeout", msg |-> "Pattern not detected"]
          /\ stdout' = stdout \o <<"Running command: " \o command,
                                   "Error: Pattern not detected">>
          /\ pc' = "Failed"
    /\ UNCHANGED <<writes, file, lastCall, prevFile, args, stored, username,
                   password, prompted, processor, command, connection>>

\* an Execute stage that sends the command a second time when the first
\* attempt raises
MainSendCommand_retry ==
    /\ pc = "send"
    /\ \/ \E reply \in Outputs :
            /\ calls' = Append(calls, Call("send_command", command, "", "",
                                           reply))
            /\ output' = reply
            /\ stdout' = stdout \o <<"Running command: " \o command,
                                     "--- Raw Command Output ---", reply>>
            /\ pc' = "disconnect"
            /\ exc' = exc
       \/ /\ calls' = Append(calls, Call("send_command", command, "", "",
                                         "raise"))
          /\ output' = output
          /\ exc' = [type |-> "ReadTimeout", msg |-> "Pattern not detected"]
          /\ IF \E i \in 1..Len(calls) : calls[i].op = "send_command"
             THEN /\ stdout' = stdout \o <<"Running command: " \o command,
                                           "Error: Pattern not detected">>
                  /\ pc' = "Failed"
             ELSE /\ stdout' = stdout \o <<"Running command: " \o command>>
                  /\ pc' = "send"
    /\ UNCHANGED <<writes, file, lastCall, prevFile, args, stored, username,
                   password, prompted, processor, command, connection>>

\* lines 172-175: send_command returns the device's reply or raises
MainSendCommand ==
    /\ pc = "send"
    /\ \/ \E reply \in Outputs :
            /\ calls' = Append(calls, Call("send_command", command, "", "",
                                           reply))
            /\ output' = reply
            /\ stdout' = stdout \o <<"Running command: " \o command,
                                     "--- Raw Command Output ---", reply>>
            /\ pc' = "disconnect"
            /\ exc' = exc
       \/ /\ calls' = Append(calls, Call("send_command", command, "", "",
                                         "raise"))
          /\ output' = output
          /\ exc' = [type |-> "ReadTimeout", msg |-> "Pattern not detected"]
          /\ stdout' = stdout \o <<"Running command: " \o command,
                                   "Error: Pattern not detected">>
          /\ pc' = "Failed"
    /\ UNCHANGED <<writes, file, lastCall, prevFile, args, stored, username,
                   password, prompted, processor, command, connection>>

\* line 176
MainDisconnect ==
    /\ pc = "disconnect"
    /\ calls' = Append(calls, Call("disconnect", "", "", "", ""))
    /\ connection' = "closed"
    /\ pc' = "summarize"
    /\ UNCHANGED <<writes, file, lastCall, prevFile, args, stored, username,
                   password, prompted, processor, command, output, stdout,
                   exc>>

\* a Summarize stage that passes the command where the output belongs
MainSummarize_wrongarg ==
    /\ pc = "summarize"
    /\ \/ \E s \in Summaries :
            /\ calls' = Append(calls, Call("summarize_output_with_llm",
                                 command, command,
                                 SUPPORTED_DEVICE_TYPES[args.device_type], s))
            /\ stdout' = stdout \o <<"--- LLM Summary ---", s>>
            /\ pc' = "Done"
            /\ exc' = exc
       \/ /\ calls' = Append(calls, Call("summarize_output_with_llm",
                               command, command,
                               SUPPORTED_DEVICE_TYPES[args.device_type],
                               "raise"))
          /\ Handler("APIError", "Connection error.")
    /\ UNCHANGED <<writes, file, lastCall, prevFile, args, stored, username,
                   password, prompted, processor, command, output,
                   connection>>

\* lines 177-179: summarize_output_with_llm returns a summary or raises
MainSummarize ==
    /\ pc = "summarize"
    /\ \/ \E s \in Summaries :
            /\ calls' = Append(calls, Call("summarize_output_with_llm",
                                 command, output,
                                 SUPPORTED_DEVICE_TYPES[args.device_type], s))
            /\ stdout' = stdout \o <<"--- LLM Summary ---", s>>
            /\ pc' = "Done"
            /\ exc' = exc
       \/ /\ calls' = Append(calls, Call("summarize_output_with_llm",
                               command, output,
                               SUPPORTED_DEVICE_TYPES[args.device_type],
                               "raise"))
          /\ Handler("APIError", "Connection error.")
    /\ UNCHANGED <<writes, file, lastCall, prevFile, args, stored, username,
                   password, prompted, processor, command, output,
                   connection>>

\* the status the process ends with: main returns normally after Done and
\* after its except clause (lines 180-184), an uncaught exception ends the
\* interpreter with 1, argparse's error with 2; -1 while still running
ExitStatus ==
    CASE pc \in {"Done", "Failed"} -> 0
      [] pc = "Crashed" -> 1
      [] pc = "ArgError" -> 2
      [] OTHER -> -1

Next ==
    \/ CallSaveCredentials
    \/ CallLoadCredentials
    \/ CallNetworkQueryProcessor
    \/ MainParseArgs
    \/ MainLoadCredentials
    \/ MainPromptUsername
    \/ MainPromptPassword
    \/ MainSaveCredentials
    \/ MainConstruct
    \/ MainSynthesize
    \/ MainConnect
    \/ MainSendCommand
    \/ MainDisconnect
    \/ MainSummarize

Spec == Init /\ [][Next]_vars

----------------------------------------------------------------------------
(* Vocabulary of the properties *)

Terminal == {"Done", "Failed", "Crashed", "ArgError"}

\* positions of main after line 157 has returned
AfterResolve == {"construct", "synthesize", "connect", "send", "disconnect",
                 "summarize", "Done", "Failed"}

CallsOf(op) == {i \in 1..Len(calls) : calls[i].op = op}
Raised(op) == \E i \in CallsOf(op) : calls[i].res = "raise"
ConnectFailed ==
    \E i \in CallsOf("connect_to_device") : calls[i].res # "ok"

\* number of members of the file's JSON object whose key is h
MembersFor(f, h) == Cardinality({i \in 1..Len(f.pairs) : f.pairs[i][1] = h})

\* the three kinds of connection failure
FailureKind(outcome) ==
    CASE outcome = "NetMikoTimeoutException" -> "Timeout"
      [] outcome = "NetMikoAuthenticationException" -> "AuthenticationFailure"
      [] OTHER -> "Other"

ErrorLines == {i \in 1..Len(stdout) :
                 Len(stdout[i]) >= 7 /\ SubSeq(stdout[i], 1, 7) = "Error: "}

----------------------------------------------------------------------------
(* Properties *)

\* C1: when save_credentials(u, p, h) has returned, load_credentials(h)
\* returns exactly (u, p) and the file holds exactly one member for h, also
\* when h had a different record before (last write wins).
C1_SaveThenLoad ==
    (lastCall.op = "save_credentials" /\ lastCall.raised = NoneVal) =>
        /\ file.kind = "object"
        /\ load_credentials(file, lastCall.host)
             = <<lastCall.username, lastCall.password>>
        /\ MembersFor(file, lastCall.host) = 1

\* a second, different record for a host that had one
C1_Witness ==
    /\ lastCall.op = "save_credentials"
    /\ lastCall.raised = NoneVal
    /\ load_credentials(prevFile, lastCall.host) # <<NoneVal, NoneVal>>
    /\ load_credentials(prevFile, lastCall.host)
         # <<lastCall.username, lastCall.password>>
    /\ load_credentials(file, lastCall.host)
         = <<lastCall.username, lastCall.password>>

\* C2: once get_command_from_llm has raised, main is in Failed, no session
\* was or is opened, no command is sent and no summary is requested.
C2_SynthesisFailureStops ==
    Raised("get_command_from_llm") =>
        /\ pc = "Failed"
        /\ connection = "none"
        /\ CallsOf("connect_to_device") = {}
        /\ CallsOf("send_command") = {}
        /\ CallsOf("summarize_output_with_llm") = {}

C2_Witness ==
    /\ Raised("get_command_from_llm")
    /\ pc = "Failed"
    /\ exc.type = "APIError"

\* C3: once connect_to_device has failed (timeout, authentication or any
\* other transport fault), main is in Failed, and send_command and
\* summarize_output_with_llm are never called.
C3_ConnectFailureStops ==
    ConnectFailed =>
        /\ pc = "Failed"
        /\ connection = "none"
        /\ CallsOf("send_command") = {}
        /\ CallsOf("summarize_output_with_llm") = {}

C3_Witness ==
    /\ ConnectFailed
    /\ pc = "Failed"
    /\ CallsOf("get_command_from_llm") # {}

\* C4: in every terminal state of main, a session that was opened has been
\* closed, whether send_command returned or raised.
C4_SessionClosedAtExit ==
    (pc \in Terminal /\ connection # "none") => connection = "closed"

\* C5 as stated: summarize_output_with_llm is called only after
\* send_command returned, with exactly the string it returned, and never
\* with an empty or unset output.
C5_SummaryNeverEmpty ==
    \A i \in CallsOf("summarize_output_with_llm") :
        /\ \E j \in CallsOf("send_command") :
             j < i /\ calls[j].res # "raise" /\ calls[i].b = calls[j].res
        /\ calls[i].b # NoneVal
        /\ calls[i].b # ""

\* C5 as amended: summarize_output_with_llm is called only after
\* send_command returned, with exactly the string it returned (which is
\* empty when the device replied with nothing), and never with an unset
\* output.
C5_SummaryGetsReply ==
    \A i \in CallsOf("summarize_output_with_llm") :
        /\ \E j \in CallsOf("send_command") :
             j < i /\ calls[j].res # "raise" /\ calls[i].b = calls[j].res
        /\ calls[i].b = output
        /\ calls[i].b # NoneVal

\* the summary of an empty reply
C5_Witness ==
    \E i \in CallsOf("summarize_output_with_llm") :
        /\ calls[i].b = ""
        /\ \E j \in CallsOf("send_command") : j < i /\ calls[j].res = ""

\* C6: NetworkQueryProcessor with a device type outside
\* SUPPORTED_DEVICE_TYPES raises ValueError and yields no object, and where
\* that has happened no call to the language model or to the device has
\* been made; inside main the same failure leaves no such call either.
C6_UnsupportedTypeRejected ==
    /\ (lastCall.op = "NetworkQueryProcessor"
          /\ lastCall.device_type \notin DOMAIN SUPPORTED_DEVICE_TYPES) =>
            /\ lastCall.raised = "ValueError"
            /\ lastCall.host = NoneVal
            /\ calls = <<>>
    /\ (processor # NoDevice) =>
            processor.device_type \in DOMAIN SUPPORTED_DEVICE_TYPES
    /\ (exc.type = "ValueError") => (calls = <<>> /\ processor = NoDevice)

C6_Witness ==
    /\ lastCall.op = "NetworkQueryProcessor"
    /\ lastCall.device_type = "hp_procurve"
    /\ lastCall.raised = "ValueError"

\* C7: every failure of the transport's connect call leaves
\* connect_to_device as one ConnectionError, never as a transport exception
\* type, with the message of its kind, which differs from the message of
\* the two other kinds; exactly one error is reported.
C7_UniformConnectionError ==
    \A i \in CallsOf("connect_to_device") :
        calls[i].res # "ok" =>
            /\ exc.type = "ConnectionError"
            /\ exc.type \notin TransportOutcomes
            /\ exc.msg = connect_to_device(processor, calls[i].res).msg
            /\ \A o \in TransportOutcomes \ {"ok"} :
                 FailureKind(o) # FailureKind(calls[i].res) =>
                     connect_to_device(processor, o).msg # exc.msg
            /\ Cardinality(ErrorLines) = 1
            /\ stdout[Len(stdout)] = "Error: " \o exc.msg

\* a transport fault that is neither a timeout nor an authentication failure
C7_Witness ==
    \E i \in CallsOf("connect_to_device") :
        /\ calls[i].res = "SSHException"
        /\ exc.type = "ConnectionError"

\* C8: whatever the file held that was no table (missing, unparseable, or
\* JSON that is not an object), save_credentials(u, p, h) returns without
\* raising and leaves exactly the one member h -> (u, p); load_credentials
\* on a missing or unparseable file returns (None, None).
C8_SaveOverAnyContent ==
    /\ (lastCall.op = "save_credentials" /\ prevFile.kind # "object") =>
          /\ lastCall.raised = NoneVal
          /\ file = FileOf("object",
                           <<<<lastCall.host,
                               Rec(lastCall.username, lastCall.password)>>>>)
    /\ (lastCall.op = "load_credentials"
          /\ prevFile.kind \in {"missing", "unparseable"}) =>
          lastCall.ret = <<NoneVal, NoneVal>>

\* C9: once line 157 has returned, load_credentials(host) returns exactly
\* the username and password main goes on with, which are the ones in the
\* processor's device_info; when the file was absent before the run, every
\* host loaded as (None, None) before and the run's host loads as the
\* resolved values afterwards.
C9_ResolvedCredentialsCached ==
    pc \in AfterResolve =>
        /\ load_credentials(file, args.host) = <<username, password>>
        /\ processor # NoDevice =>
             /\ processor.username = username
             /\ processor.password = password
             /\ processor.host = args.host
        /\ prevFile.kind = "missing" =>
             /\ stored = <<NoneVal, NoneVal>>
             /\ file = FileOf("object",
                              <<<<args.host, Rec(username, password)>>>>)

\* absent file, password typed at the prompt, processor built
C9_Witness ==
    /\ pc = "synthesize"
    /\ prevFile.kind = "missing"
    /\ prompted = <<"password">>
    /\ Truthy(password)
    /\ processor.password = password
    /\ load_credentials(file, args.host) = <<username, password>>

\* C10: when summarize_output_with_llm has raised, the generated command
\* and the raw output are already on stdout, before the error line, and
\* stay there.
C10_OutputShownBeforeSummaryFailure ==
    Raised("summarize_output_with_llm") =>
        \E a, b, c \in 1..Len(stdout) :
            /\ a < b /\ b < c /\ c = Len(stdout)
            /\ stdout[a] = "Generated command: " \o command
            /\ stdout[b - 1] = "--- Raw Command Output ---"
            /\ stdout[b] = output
            /\ stdout[c] = "Error: " \o exc.msg

C10_Witness ==
    /\ Raised("summarize_output_with_llm")
    /\ pc = "Failed"
    /\ output = "Uptime: 10 days"
    /\ connection = "closed"

\* C11: every run that ends in a pipeline failure has printed an error
\* message and ends with a non-zero exit status; a run ends with status 0
\* only when it reached Done.
C11_FailureExitsNonZero ==
    /\ pc = "Failed" => (ErrorLines # {} /\ ExitStatus # 0)
    /\ (pc \in Terminal /\ ExitStatus = 0) => pc = "Done"

\* C12: a save_credentials call that repeats the returned call before it
\* (same host, username and password) returns and leaves the whole file as
\* the first call left it.
C12_SaveIdempotent ==
    (lastCall.op = "save_credentials" /\ lastCall.repeat) =>
        /\ lastCall.raised = NoneVal
        /\ file = prevFile
        /\ json_load_object(file.pairs) = json_load_object(prevFile.pairs)

\* the repeated save, on a table that also holds another host
C12_Witness ==
    /\ lastCall.op = "save_credentials"
    /\ lastCall.repeat
    /\ Len(file.pairs) = 2
    /\ load_credentials(file, lastCall.host)
         = <<lastCall.username, lastCall.password>>

\* position of a call in the pipeline
StageRank(op) ==
    CASE op = "get_command_from_llm" -> 1
      [] op = "connect_to_device" -> 2
      [] op = "send_command" -> 3
      [] op = "disconnect" -> 4
      [] op = "summarize_output_with_llm" -> 5

CallFailed(c) ==
    \/ c.res = "raise"
    \/ c.op = "connect_to_device" /\ c.res # "ok"

\* C13: in every run of main the credentials are saved (at most once)
\* before the first call, the calls are synthesize, connect, send command,
\* disconnect, summarize in that order, none skipped or repeated, a failed
\* call is the last call of the run, and send_command is only called after
\* a connect that succeeded and before any disconnect.
C13_StagesInOrder ==
    /\ writes <= 1
    /\ calls # <<>> => (writes = 1 /\ pc \in AfterResolve)
    /\ \A i \in 1..Len(calls) :
         /\ StageRank(calls[i].op) = i
         /\ CallFailed(calls[i]) => i = Len(calls)
    /\ \A i \in CallsOf("send_command") :
         /\ \E j \in CallsOf("connect_to_device") :
              j < i /\ calls[j].res = "ok"
         /\ \A k \in CallsOf("disconnect") : i < k
    /\ (pc = "send") => connection = "open"

\* a run through all six stages
C13_Witness ==
    /\ pc = "Done"
    /\ writes = 1
    /\ Len(calls) = 5
    /\ calls[5].op = "summarize_output_with_llm"

Prompted(field) == \E i \in 1..Len(prompted) : prompted[i] = field

\* positions of main after lines 150-156
AfterPrompts == {"save", "Crashed"} \cup AfterResolve

\* C14: the username (the password) main uses is the command-line value
\* when there is one, else the cached one, else the one typed at the prompt;
\* a field is prompted for exactly when neither the command line nor the
\* cache supplies it; a command line without --username is accepted and
\* falls back in the same way.
C14_CredentialResolution ==
    /\ exc.msg # "the following arguments are required: --username"
    /\ pc \in AfterPrompts =>
         /\ Truthy(args.username) => username = args.username
         /\ (~Truthy(args.username) /\ Truthy(stored[1])) =>
              username = stored[1]
         /\ Prompted("username") <=>
              (~Truthy(args.username) /\ ~Truthy(stored[1]))
         /\ Truthy(args.password) => password = args.password
         /\ (~Truthy(args.password) /\ Truthy(stored[2])) =>
              password = stored[2]
         /\ Prompted("password") <=>
              (~Truthy(args.password) /\ ~Truthy(stored[2]))

\* C15: every run of main that gets past argument parsing rewrites the
\* credential file exactly once, on line 157 and before any call to the
\* language model or the device; from then on the file stays what that
\* save made it, on every path, so credentials the device rejected are
\* still the host's cached record.
C15_TableWrittenOnce ==
    /\ writes <= 1
    /\ pc \in Terminal \ {"ArgError"} => writes = 1
    /\ calls # <<>> => writes = 1
    /\ pc \in AfterResolve =>
         file = save_credentials(prevFile, username, password,
                                 args.host).file
    /\ (\E i \in CallsOf("connect_to_device") :
           calls[i].res = "NetMikoAuthenticationException") =>
         load_credentials(file, args.host)
           = <<processor.username, processor.password>>

\* the file holds a host-to-record table: a JSON object, one member per
\* host, every member a username/password record
ValidTable(f) ==
    /\ f.kind = "object"
    /\ \A i \in 1..Len(f.pairs) : f.pairs[i][2].wf
    /\ \A i, j \in 1..Len(f.pairs) :
         f.pairs[i][1] = f.pairs[j][1] => i = j

\* C16: on a file that holds a valid table, save_credentials(u, p, h)
\* returns and load_credentials(h2) gives for every other host h2 what it
\* gave before the save; load_credentials leaves the file as it was.
C16_SaveTouchesOneHost ==
    /\ (lastCall.op = "save_credentials" /\ ValidTable(prevFile)) =>
         /\ lastCall.raised = NoneVal
         /\ ValidTable(file)
         /\ \A h2 \in Hosts \ {lastCall.host} :
              load_credentials(file, h2) = load_credentials(prevFile, h2)
    /\ lastCall.op = "load_credentials" => file = prevFile

\* a save that changes one host's record next to another host's record
C16_Witness ==
    /\ lastCall.op = "save_credentials"
    /\ ValidTable(prevFile)
    /\ load_credentials(file, lastCall.host)
         # load_credentials(prevFile, lastCall.host)
    /\ \E h2 \in Hosts \ {lastCall.host} :
         /\ load_credentials(prevFile, h2) # <<NoneVal, NoneVal>>
         /\ load_credentials(file, h2) = load_credentials(prevFile, h2)

\* a run given a username other than the cached one and no password
OtherUserNoPassword ==
    /\ pc \in AfterPrompts
    /\ stored[1] # NoneVal
    /\ Truthy(args.username)
    /\ args.username # stored[1]
    /\ args.password = NoneVal

\* the cached password goes to the session and is saved under the new
\* username
CachedPasswordReused ==
    /\ username = args.username
    /\ password = stored[2]
    /\ ~Prompted("password")
    /\ pc \in AfterResolve =>
         load_credentials(file, args.host) = <<args.username, stored[2]>>
    /\ \A i \in CallsOf("connect_to_device") :
         calls[i].b = args.username /\ calls[i].c = stored[2]

\* C17 as stated: whenever a record is cached for the host and the run
\* gives another username and no password, the cached password is used for
\* the session and saved again under the new username.
C17_CachedPasswordAlwaysReused ==
    OtherUserNoPassword => CachedPasswordReused

\* C17 as amended: the same, when the cached password is not empty (an
\* empty cached password counts as none and the password is prompted for).
C17_NonEmptyCachedPasswordReused ==
    (OtherUserNoPassword /\ Truthy(stored[2])) => CachedPasswordReused

\* the session opened as the new user with the other user's password
C17_Witness ==
    /\ OtherUserNoPassword
    /\ Truthy(stored[2])
    /\ \E i \in CallsOf("connect_to_device") :
         /\ calls[i].b = args.username
         /\ calls[i].c = stored[2]
         /\ calls[i].b # stored[1]
    /\ load_credentials(file, args.host) = <<args.username, stored[2]>>
    /\ load_credentials(prevFile, args.host) = stored

====
